---- MODULE Spec2Model ----
(***************************************************************************)
(* A model of src/src/registry.ts: the identity cache (`components`), the  *)
(* lifecycle signal table (`signals`), the hook wiring (`hookListeners`),  *)
(* the key resolution (`component`, `reserve`, `getId`), the entity        *)
(* authoring facade (`set`, `insert`, `add`, `remove`, `has`, `get`,       *)
(* `spawn`, `target`, `pair`, `despawn`, `parent`) and the notification    *)
(* channel (`createSignal`).                                               *)
(*                                                                         *)
(* The ECS store itself (`./jecs`, the object `registry` and the function  *)
(* `ecs.pair`) is not part of the source; its operations are the           *)
(* definitions named world_* and ecs_*, modelled from the store contract   *)
(* the specification gives for it (External interfaces).                   *)
(*                                                                         *)
(* Every operation of the source is a state transformer: an operator that  *)
(* takes the program state as a record and returns a result record         *)
(* [s, err, id, ...] holding the state after the call, the error the call  *)
(* threw (NoError when it returned) and what it returned.  An action of    *)
(* the specification is one whole call made by a caller of the module; it  *)
(* records the call, its outcome and what fired during it in lastOp, fired *)
(* and invoked.  The action Returned is the caller taking that outcome:    *)
(* calls are made one at a time, from the idle module.                     *)
(*                                                                         *)
(* Callers pass the entities that spawn returned and despawn has not       *)
(* deleted; the store contract says nothing of other entities.             *)
(***************************************************************************)
EXTENDS Integers, Sequences, FiniteSets, TLC

VARIABLES
    components,  \* the Map<string, Id> of line 51: key -> identifier, NoId when absent
    signals,     \* the table of lines 29-37: added/removed/changed, id -> channel
    channels,    \* the `listeners` array of each channel createSignal has made
    registry,    \* the store, new ecs.World() of line 28
    wired,       \* history: how many times hookListeners has run for each identifier
    origin,      \* history: which operation wrote each key's entry of the identity cache
    fired,       \* observation: the fires of channels during the last call, in order
    invoked,     \* observation: the listener invocations during the last call, in order
    lastOp,      \* observation: the last call made, its arguments and its outcome
    threads      \* the callers inside component(key): where each is, and its locals

vars == <<components, signals, channels, registry, wired, origin, fired, invoked, lastOp, threads>>

---------------------------------------------------------------------------
(* Bounds of the model *)

\* the number of keys callers use besides the two built-in ones
MaxKeys == 2
\* the number of component identifiers the store may mint
MaxComponents == 2
\* the number of entities the store may create
MaxEntities == 1
\* the number of components an entity may hold
MaxData == 1
\* the scalar component values are 1..MaxVal
MaxVal == 1
\* the number of listeners connected over a run
MaxListeners == 1
\* the longest key or value bundle passed to insert and spawn
MaxBundle == 2
\* the callers that run component(key) concurrently
MaxThreads == 2

---------------------------------------------------------------------------
(* Keys *)

\* an omitted key, or an omitted side of a pair key (undefined)
Undefined == 0
\* the key the build-time macro derives for the interface Wildcard
WildcardKey == 1
\* the key the build-time macro derives for the interface ChildOf
ChildOfKey == 2

BuiltinKeys == {WildcardKey, ChildOfKey}
UserKeys == (ChildOfKey + 1)..(ChildOfKey + MaxKeys)
\* the key strings
Keys == BuiltinKeys \cup UserKeys

\* A key argument (SolveKey<T>): omitted, a string, or a table {pred, obj}
\* either side of which may be undefined.
OmittedKey == [kind |-> "undefined", str |-> Undefined, pred |-> Undefined, obj |-> Undefined]
PlainKey(k) == [kind |-> "string", str |-> k, pred |-> Undefined, obj |-> Undefined]
PairKey(p, o) == [kind |-> "table", str |-> Undefined, pred |-> p, obj |-> o]

---------------------------------------------------------------------------
(* Identifiers and values *)

\* no identifier (undefined)
NoId == 0
\* ecs.Wildcard, the store's reserved wildcard identifier
Wildcard == 1
\* ecs.ChildOf, the store's reserved child-of identifier
ChildOf == 2

ReservedIds == {Wildcard, ChildOf}
\* the plain identifiers: the reserved ones and those the store mints
Ids == 1..(ChildOf + MaxComponents + MaxEntities)
\* one more than the largest plain identifier
IdSpan == ChildOf + MaxComponents + MaxEntities + 1

\* ecs.pair(pred, obj): a pure, deterministic and injective composition of
\* two plain identifiers into an identifier that is not a plain one
ecs_pair(pred, obj) == IdSpan * pred + obj

IsPair(id) == id >= IdSpan
ecs_pair_first(id) == id \div IdSpan
ecs_pair_second(id) == id % IdSpan

\* A component value: a scalar v, the value nil (undefined), or a whole
\* bundle (an array of scalars).
Scalar(v) == [bundle |-> FALSE, s |-> <<v>>]
Nil == [bundle |-> FALSE, s |-> <<>>]
Bundle(vs) == [bundle |-> TRUE, s |-> vs]

Vals == 1..MaxVal

\* no channel
NoChan == 0

NoError == "none"
MissingKey == "assertion failed"
DuplicateKey == "A component with the key already exists"
MissingKeys == "assertion failed: keys"
\* the failure of a listener that throws
ListenerFailed == "listener failed"
---------------------------------------------------------------------------
(* The program state as a record, and results of calls *)

State ==
    [components |-> components, signals |-> signals, channels |-> channels,
     registry |-> registry, wired |-> wired, origin |-> origin,
     fired |-> fired, invoked |-> invoked,
     overflow |-> FALSE, thrown |-> FALSE]

\* a call that threw: `assert` failed with the message err
Throw(s, err) == [s |-> s, err |-> err, id |-> NoId]
\* a call that ran to its return statement with the identifier (or entity)
\* id; it did not get there when a listener threw on the way: nothing in the
\* module catches, so the caller sees the listener's failure
Return(s, id) ==
    IF s.thrown THEN Throw(s, ListenerFailed) ELSE [s |-> s, err |-> NoError, id |-> id]

EmptyData == [x \in {} |-> Nil]

Remove(f, x) == [y \in DOMAIN f \ {x} |-> f[y]]

---------------------------------------------------------------------------
(* The notification channel: createSignal, lines 307-321 *)

\* createSignal(): a new channel with no listener; channel c is the c-th made
createSignal(s) == [s EXCEPT !.channels = Append(@, <<>>)]

\* connect(func): listeners.push(func)
connect(s, chan, func) == [s EXCEPT !.channels[chan] = Append(@, func)]

\* a listener of the model records that it was invoked, and with what
Listener(func, chan, entity, data) ==
    [listener |-> func, chan |-> chan, entity |-> entity, data |-> data]

\* a listener is a function of the caller's; the model numbers them, and the
\* ones that throw when invoked have negative numbers
Throws(func) == func < 0

RECURSIVE FireLoop(_, _, _, _, _)
\* the loop of lines 316-318, from the i-th listener on: each listener is
\* invoked with args, in the order of the array; a listener that throws ends
\* the loop, as nothing catches
FireLoop(s, chan, entity, data, i) ==
    IF i > Len(s.channels[chan]) \/ s.thrown THEN s
    ELSE FireLoop([s EXCEPT !.invoked = Append(@, Listener(s.channels[chan][i], chan, entity, data)),
                            !.thrown = Throws(s.channels[chan][i])],
                  chan, entity, data, i + 1)

\* fire that invokes the listeners last connected first
fireReversed(s, chan, entity, data) ==
    LET n == Len(s.channels[chan])
        reversed == [s EXCEPT !.channels[chan] = [i \in 1..n |-> s.channels[chan][n + 1 - i]]]
    IN [FireLoop([reversed EXCEPT !.fired = Append(@, [chan |-> chan, entity |-> entity,
                                                         data |-> data])],
                 chan, entity, data, 1)
          EXCEPT !.channels = s.channels]

\* fire that catches a listener's failure and goes on with the next listener
fireCatches(s, chan, entity, data) ==
    [s EXCEPT !.fired = Append(@, [chan |-> chan, entity |-> entity, data |-> data]),
              !.invoked = @ \o [i \in 1..Len(s.channels[chan]) |->
                                  Listener(s.channels[chan][i], chan, entity, data)]]

\* fire(...args), lines 315-319
fire(s, chan, entity, data) ==
    FireLoop([s EXCEPT !.fired = Append(@, [chan |-> chan, entity |-> entity, data |-> data])],
             chan, entity, data, 1)

---------------------------------------------------------------------------
(* The store: ./jecs, modelled from its contract *)

\* the identifiers the store has minted so far
Minted(reg) == (ChildOf + 1)..(ChildOf + reg.nextId)

\* registry.component() and registry.entity(): a fresh, store-unique identifier;
\* the model's store holds MaxComponents and MaxEntities of them
world_mint(s, isEntity) ==
    IF \/ isEntity /\ s.registry.nEntities >= MaxEntities
       \/ ~isEntity /\ s.registry.nextId - s.registry.nEntities >= MaxComponents
    THEN [s |-> [s EXCEPT !.overflow = TRUE], id |-> NoId]
    ELSE LET id == ChildOf + s.registry.nextId + 1
         IN [s |-> [s EXCEPT !.registry.nextId = @ + 1,
                             !.registry.nEntities = IF isEntity THEN @ + 1 ELSE @,
                             !.registry.entities = IF isEntity THEN @ \cup {id} ELSE @],
             id |-> id]

world_component(s) == world_mint(s, FALSE)
world_entity(s) == world_mint(s, TRUE)

\* registry.set(id, ecs.OnAdd | ecs.OnRemove | ecs.OnSet, callback): registers
\* one more callback for the event on id; a callback of the source fires one
\* channel, and is modelled as that channel
world_hook(s, id, event, callback) ==
    [s EXCEPT !.registry.hooks[id][event] = Append(@, callback)]

RECURSIVE RunHooks(_, _, _, _)
\* the store invokes the callbacks registered for an event, in order; a
\* callback that throws ends the store's operation
RunHooks(s, callbacks, entity, data) ==
    IF callbacks = <<>> \/ s.thrown THEN s
    ELSE RunHooks(fire(s, Head(callbacks), entity, data), Tail(callbacks), entity, data)

HooksOf(s, id, event) ==
    IF id \in Ids THEN s.registry.hooks[id][event] ELSE <<>>

\* registry.set(entity, id, value): upserts value; triggers the on-set hook
world_set(s, entity, id, value) ==
    RunHooks([s EXCEPT !.registry.data[entity] = (id :> value) @@ @],
             HooksOf(s, id, "OnSet"), entity, value)

\* registry.add(entity, id): idempotent; triggers the on-add hook on first add only
world_add(s, entity, id) ==
    IF id \in DOMAIN s.registry.data[entity] THEN s
    ELSE RunHooks([s EXCEPT !.registry.data[entity] = (id :> Nil) @@ @],
                  HooksOf(s, id, "OnAdd"), entity, Nil)

\* registry.remove(entity, id): idempotent; triggers the on-remove hook if present
world_remove(s, entity, id) ==
    IF id \notin DOMAIN s.registry.data[entity] THEN s
    ELSE RunHooks([s EXCEPT !.registry.data[entity] = Remove(@, id)],
                  HooksOf(s, id, "OnRemove"), entity, Nil)

\* registry.has(entity, id)
world_has(s, entity, id) == id \in DOMAIN s.registry.data[entity]

\* registry.get(entity, id): the value, or nil when absent
world_get(s, entity, id) ==
    IF id \in DOMAIN s.registry.data[entity] THEN s.registry.data[entity][id] ELSE Nil

\* the objects of the relationships (id, *) the entity has
Targets(s, entity, id) ==
    {ecs_pair_second(p) : p \in {q \in DOMAIN s.registry.data[entity] :
                                    IsPair(q) /\ ecs_pair_first(q) = id}}

\* registry.target(entity, id): the (first) object of relationship id, or none
world_target(s, entity, id) ==
    LET ts == Targets(s, entity, id)
    IN IF ts = {} THEN NoId ELSE CHOOSE t \in ts : \A u \in ts : t <= u

\* registry.delete(entity): removes the entity and all its components
world_delete(s, entity) ==
    [s EXCEPT !.registry.entities = @ \ {entity},
              !.registry.deleted = @ \cup {entity},
              !.registry.data[entity] = EmptyData]
---------------------------------------------------------------------------
(* Signal accessors, lines 39-49 *)

\* added(id): signals.added[id]
added(s, id) == s.signals.added[id]
\* removed(id): signals.removed[id]
removed(s, id) == s.signals.removed[id]
\* changed(id): signals.changed[id]
changed(s, id) == s.signals.changed[id]

---------------------------------------------------------------------------
(* Hook wiring, lines 53-70 *)

\* an OnAdd callback that fires the removed channel
OnAddFiresRemoved(addedSignal, removedSignal, changedSignal) == removedSignal

\* the callback registered for ecs.OnAdd fires addedSignal (lines 61-63)
OnAddCallback(addedSignal, removedSignal, changedSignal) == addedSignal
\* the callback registered for ecs.OnRemove fires removedSignal (lines 64-66)
OnRemoveCallback(addedSignal, removedSignal, changedSignal) == removedSignal
\* the callback registered for ecs.OnSet fires changedSignal (lines 67-69)
OnSetCallback(addedSignal, removedSignal, changedSignal) == changedSignal

\* the three createSignal calls of lines 54-56
CreateTriple(s) == createSignal(createSignal(createSignal(s)))

\* the table entries written, without the one for the changed channel
SetTripleNoChanged(s, id, addedSignal, removedSignal, changedSignal) ==
    [s EXCEPT !.signals.added[id] = addedSignal,
              !.signals.removed[id] = removedSignal]

\* the table entries written by lines 57-59
SetTriple(s, id, addedSignal, removedSignal, changedSignal) ==
    [s EXCEPT !.signals.added[id] = addedSignal,
              !.signals.removed[id] = removedSignal,
              !.signals.changed[id] = changedSignal]

hookListeners(s, id) ==
    LET addedSignal == Len(s.channels) + 1
        removedSignal == Len(s.channels) + 2
        changedSignal == Len(s.channels) + 3
        s1 == SetTriple(CreateTriple(s), id, addedSignal, removedSignal, changedSignal)
        s2 == world_hook(s1, id, "OnAdd",
                         OnAddCallback(addedSignal, removedSignal, changedSignal))
        s3 == world_hook(s2, id, "OnRemove",
                         OnRemoveCallback(addedSignal, removedSignal, changedSignal))
        s4 == world_hook(s3, id, "OnSet",
                         OnSetCallback(addedSignal, removedSignal, changedSignal))
    IN [s4 EXCEPT !.wired[id] = @ + 1]

---------------------------------------------------------------------------
(* Key resolution, lines 84-131 *)

\* component that mints an identifier even when the key is in the cache
componentAlwaysMints(s, key) ==
    IF key = Undefined THEN Throw(s, MissingKey)
    ELSE LET m == world_component(s)
         IN IF m.s.overflow THEN Return(s, s.components[key])
            ELSE Return(hookListeners([m.s EXCEPT !.components[key] = m.id,
                                                        !.origin[key] = "component"], m.id), m.id)

\* component(key), lines 84-95
component(s, key) ==
    IF key = Undefined THEN Throw(s, MissingKey)
    ELSE IF s.components[key] # NoId THEN Return(s, s.components[key])
    ELSE LET m == world_component(s)
         IN IF m.s.overflow THEN Return(m.s, NoId)
            ELSE Return(hookListeners([m.s EXCEPT !.components[key] = m.id,
                                                        !.origin[key] = "component"], m.id), m.id)

\* reserve without the check that the key is not in the cache
reserveOverwrites(s, runtimeId, key) ==
    IF key = Undefined THEN Throw(s, MissingKey)
    ELSE Return(hookListeners([s EXCEPT !.components[key] = runtimeId,
                                       !.origin[key] = "reserve"], runtimeId), NoId)

\* reserve(runtimeId, key), lines 105-110
reserve(s, runtimeId, key) ==
    IF key = Undefined THEN Throw(s, MissingKey)
    ELSE IF s.components[key] # NoId THEN Throw(s, DuplicateKey)
    ELSE Return(hookListeners([s EXCEPT !.components[key] = runtimeId,
                                       !.origin[key] = "reserve"], runtimeId), NoId)

\* one side of a pair key, lines 125-126
PairSide(s, side) ==
    IF side # Undefined THEN component(s, side) ELSE Return(s, Wildcard)

\* getId without the assertion: an omitted key reads as a table without sides
getIdNoAssert(s, key) ==
    IF key.kind = "string" THEN component(s, key.str)
    ELSE LET p == PairSide(s, key.pred)
             o == PairSide(p.s, key.obj)
         IN Return(o.s, ecs_pair(p.id, o.id))

\* getId that pairs the sides in the order (object, predicate)
getIdSwapsSides(s, key) ==
    IF key.kind = "undefined" THEN Throw(s, MissingKey)
    ELSE IF key.kind = "table"
    THEN LET p == PairSide(s, key.pred)
             o == PairSide(p.s, key.obj)
         IN Return(o.s, ecs_pair(o.id, p.id))
    ELSE component(s, key.str)

\* getId(key), lines 119-131
getId(s, key) ==
    IF key.kind = "undefined" THEN Throw(s, MissingKey)
    ELSE IF key.kind = "table"
    THEN LET p == PairSide(s, key.pred)
             o == PairSide(p.s, key.obj)
         IN Return(o.s, ecs_pair(p.id, o.id))
    ELSE component(s, key.str)

---------------------------------------------------------------------------
(* The entity authoring facade, lines 142-297 *)

\* a call that returned a component value
ReturnValue(s, value) == [s |-> s, err |-> NoError, id |-> NoId, value |-> value]
\* a call that returned a boolean
ReturnBool(s, b) == [s |-> s, err |-> NoError, id |-> NoId, bool |-> b]

\* set that skips the store when the entity holds the value already
setDeduplicates(s, entity, value, key) ==
    LET r == getId(s, key)
    IN IF r.err # NoError THEN r
       ELSE IF world_has(r.s, entity, r.id) /\ world_get(r.s, entity, r.id) = value
       THEN Return(r.s, NoId)
       ELSE Return(world_set(r.s, entity, r.id, value), NoId)

\* set(entity, value, key), lines 142-145
set(s, entity, value, key) ==
    LET r == getId(s, key)
    IN IF r.err # NoError THEN r
       ELSE Return(world_set(r.s, entity, r.id, value), NoId)

\* the value line 164 passes to registry.set for the i-th key: `values`
InsertValue(values, i) == Bundle(values)

RECURSIVE InsertLoop(_, _, _, _, _)
\* the loop of lines 162-165, from the i-th key on
InsertLoop(s, entity, values, keys, i) ==
    IF i > Len(keys) \/ s.thrown THEN Return(s, NoId)
    ELSE LET r == getId(s, keys[i])
         IN IF r.err # NoError THEN r
            ELSE InsertLoop(world_set(r.s, entity, r.id, InsertValue(values, i)),
                            entity, values, keys, i + 1)

\* insert(entity, values, keys), lines 156-166; keys = [given, seq]
insert(s, entity, values, keys) ==
    IF ~keys.given THEN Throw(s, MissingKeys)
    ELSE InsertLoop(s, entity, values, keys.seq, 1)

\* add(entity, key), lines 177-180
add(s, entity, key) ==
    LET r == getId(s, key)
    IN IF r.err # NoError THEN r
       ELSE Return(world_add(r.s, entity, r.id), NoId)

\* remove(entity, key), lines 190-193
remove(s, entity, key) ==
    LET r == getId(s, key)
    IN IF r.err # NoError THEN r
       ELSE Return(world_remove(r.s, entity, r.id), NoId)

\* has that adds the component it asks for
hasAdds(s, entity, key) ==
    LET r == getId(s, key)
    IN IF r.err # NoError THEN [s |-> r.s, err |-> r.err, id |-> NoId, bool |-> FALSE]
       ELSE ReturnBool(world_add(r.s, entity, r.id), world_has(r.s, entity, r.id))

\* has(entity, key), lines 204-207
has(s, entity, key) ==
    LET r == getId(s, key)
    IN IF r.err # NoError THEN [s |-> r.s, err |-> r.err, id |-> NoId, bool |-> FALSE]
       ELSE ReturnBool(r.s, world_has(r.s, entity, r.id))

\* get(entity, key), lines 220-223
get(s, entity, key) ==
    LET r == getId(s, key)
    IN IF r.err # NoError THEN [s |-> r.s, err |-> r.err, id |-> NoId, value |-> Nil]
       ELSE ReturnValue(r.s, world_get(r.s, entity, r.id))

\* the value line 242 passes to registry.set for the i-th key: bundle[i]
SpawnValue(bundle, i) == IF i <= Len(bundle) THEN Scalar(bundle[i]) ELSE Nil

RECURSIVE SpawnLoop(_, _, _, _, _)
\* the loop of lines 240-243, from the i-th key on
SpawnLoop(s, entity, bundle, keys, i) ==
    IF i > Len(keys) \/ s.thrown THEN Return(s, entity)
    ELSE LET r == getId(s, keys[i])
         IN IF r.err # NoError THEN r
            ELSE SpawnLoop(world_set(r.s, entity, r.id, SpawnValue(bundle, i)),
                           entity, bundle, keys, i + 1)

\* spawn(bundle, keys), lines 234-247; bundle and keys = [given, seq]
spawn(s, bundle, keys) ==
    LET e == world_entity(s)
    IN IF e.s.overflow THEN Return(e.s, NoId)
       ELSE IF bundle.given /\ keys.given
       THEN SpawnLoop(e.s, e.id, bundle.seq, keys.seq, 1)
       ELSE Return(e.s, e.id)

\* target(entity, key), lines 259-262
target(s, entity, key) ==
    LET r == component(s, key)
    IN IF r.err # NoError THEN r
       ELSE Return(r.s, world_target(r.s, entity, r.id))

\* pair(object, predicate), lines 274-277
pair(s, object, predicate) ==
    LET r == component(s, predicate)
    IN IF r.err # NoError THEN r
       ELSE Return(r.s, ecs_pair(r.id, object))

\* despawn that leaves the entity and its components in the store
despawnKeepsEntity(s, entity) == Return(s, NoId)

\* despawn(entity), lines 284-286
despawn(s, entity) == Return(world_delete(s, entity), NoId)

\* parent(entity), lines 295-297: target<ChildOf>(entity), the key filled in
\* by the build-time macro
parent(s, entity) == target(s, entity, ChildOfKey)
---------------------------------------------------------------------------
(* The initial state: the module's top-level statements *)

\* the state before lines 299-300 run: nothing registered, an empty store
Empty ==
    [components |-> [k \in Keys |-> NoId],
     signals |-> [added |-> [i \in Ids |-> NoChan],
                  removed |-> [i \in Ids |-> NoChan],
                  changed |-> [i \in Ids |-> NoChan]],
     channels |-> <<>>,
     registry |-> [nextId |-> 0,
                   nEntities |-> 0,
                   entities |-> {},
                   deleted |-> {},
                   data |-> [i \in Ids |-> EmptyData],
                   hooks |-> [i \in Ids |-> [OnAdd |-> <<>>, OnRemove |-> <<>>, OnSet |-> <<>>]]],
     wired |-> [i \in Ids |-> 0],
     origin |-> [k \in Keys |-> "none"],
     fired |-> <<>>,
     invoked |-> <<>>,
     overflow |-> FALSE,
     thrown |-> FALSE]

\* top-level statements that resolve the built-in keys with component, which
\* mints, instead of reserving the store's identifiers for them
ModuleInitMints == component(component(Empty, WildcardKey).s, ChildOfKey).s

\* lines 299-300: reserve<Wildcard>(ecs.Wildcard); reserve<ChildOf>(ecs.ChildOf)
ModuleInit == reserve(reserve(Empty, Wildcard, WildcardKey).s, ChildOf, ChildOfKey).s

\* an omitted bundle, and a given one
NoBundle == [given |-> FALSE, seq |-> <<>>]
Given(seq) == [given |-> TRUE, seq |-> seq]

\* the record of a call: what was called, with what, and how it ended
Call(op) ==
    [op |-> op, key |-> OmittedKey, entity |-> NoId, value |-> Nil,
     values |-> NoBundle, keys |-> NoBundle,
     err |-> NoError, ret |-> NoId, retValue |-> Nil, retBool |-> FALSE,
     known |-> FALSE, had |-> FALSE, old |-> Nil, changed |-> {}]

\* no call is in progress or waiting to be looked at
Idle == Call("idle")

\* the callers that may be inside component(key) at once
Threads == 1..MaxThreads
\* no caller is inside component(key): calls run one at a time, each to its end
NoThreads ==
    [atomic |-> TRUE,
     pc |-> [t \in Threads |-> "idle"],
     key |-> [t \in Threads |-> Undefined],
     id |-> [t \in Threads |-> NoId]]

Init ==
    /\ components = ModuleInit.components
    /\ signals = ModuleInit.signals
    /\ channels = ModuleInit.channels
    /\ registry = ModuleInit.registry
    /\ wired = ModuleInit.wired
    /\ origin = ModuleInit.origin
    /\ fired = <<>>
    /\ invoked = <<>>
    /\ lastOp = Idle
    /\ threads = NoThreads

---------------------------------------------------------------------------
(* The calls a caller of the module makes *)

\* the state a call starts from: nothing fired yet during this call
Begin == [State EXCEPT !.fired = <<>>, !.invoked = <<>>]

\* history: the parts of the program state that differ between the state the
\* call started from and the state s it leaves
Changes(s) ==
    {part \in {"components", "signals", "channels", "minted", "hooks", "entities", "data"} :
        CASE part = "components" -> s.components # components
          [] part = "signals" -> s.signals # signals
          [] part = "channels" -> s.channels # channels
          [] part = "minted" -> s.registry.nextId # registry.nextId
          [] part = "hooks" -> s.registry.hooks # registry.hooks
          [] part = "entities" -> s.registry.entities # registry.entities
          [] part = "data" -> s.registry.data # registry.data}

\* the state a call leaves, and the record of the call; a call that would
\* need more identifiers than the model's store holds is not taken
Commit(s, call) ==
    /\ ~s.overflow
    /\ \A e \in Ids : Cardinality(DOMAIN s.registry.data[e]) <= MaxData
    /\ components' = s.components
    /\ signals' = s.signals
    /\ channels' = s.channels
    /\ registry' = s.registry
    /\ wired' = s.wired
    /\ origin' = s.origin
    /\ fired' = s.fired
    /\ invoked' = s.invoked
    /\ lastOp' = [call EXCEPT !.changed = Changes(s)]
    /\ UNCHANGED threads

SeqsUpTo(S, n) == UNION {[1..m -> S] : m \in 0..n}

\* the key strings callers pass, and the omitted key
KeyStrings == Keys \cup {Undefined}
\* the keys callers pass to getId
KeyArgs ==
    {OmittedKey} \cup {PlainKey(k) : k \in Keys}
        \cup {PairKey(p, o) : p \in {Undefined, ChildOfKey} \cup UserKeys,
                               o \in {Undefined, ChildOfKey} \cup UserKeys}
\* the keys callers pass to the facade: omitted, a component of theirs, or
\* the relationship ChildOf with a component of theirs
FacadeKeys ==
    {OmittedKey} \cup {PlainKey(k) : k \in UserKeys}
        \cup {PairKey(ChildOfKey, k) : k \in UserKeys}
\* the key bundles callers pass to insert and spawn
KeyBundles ==
    {NoBundle} \cup {Given(ks) : ks \in SeqsUpTo({PlainKey(k) : k \in UserKeys}, MaxBundle)}
\* the value bundles callers pass to insert and spawn
ValueBundles == {NoBundle} \cup {Given(vs) : vs \in SeqsUpTo(Vals, MaxBundle)}

\* the identifiers that exist: the store's reserved ones and those it minted
Existing == ReservedIds \cup Minted(registry)
\* the entities callers hold: made by spawn and not despawned
Entities == registry.entities
\* the entities callers ask about: those they hold and those they despawned
Queryable == registry.entities \cup registry.deleted

\* the key argument made of an optional key string
KeyOf(k) == IF k = Undefined THEN OmittedKey ELSE PlainKey(k)

\* history: whether every key string of the key is in the identity cache
\* before the call
Known(key) ==
    /\ key.kind # "undefined"
    /\ \A k \in {key.str, key.pred, key.obj} \ {Undefined} : components[k] # NoId

\* history: whether the entity has the component the key resolves to, before
\* the call, and its value then
HadBefore(entity, key) ==
    Known(key) /\ world_has(Begin, entity, getId(Begin, key).id)
OldValue(entity, key) ==
    IF Known(key) THEN world_get(Begin, entity, getId(Begin, key).id) ELSE Nil

Component(key) ==
    /\ lastOp = Idle
    /\ \E r \in {component(Begin, key)} :
         Commit(r.s, [Call("component") EXCEPT !.key = KeyOf(key), !.err = r.err,
                                                 !.ret = r.id, !.known = Known(KeyOf(key))])

Reserve(runtimeId, key) ==
    /\ lastOp = Idle
    /\ \E r \in {reserve(Begin, runtimeId, key)} :
         Commit(r.s, [Call("reserve") EXCEPT !.key = KeyOf(key), !.entity = runtimeId,
                                               !.err = r.err, !.known = Known(KeyOf(key))])

GetId(key) ==
    /\ lastOp = Idle
    /\ \E r \in {getId(Begin, key)} :
         Commit(r.s, [Call("getId") EXCEPT !.key = key, !.err = r.err, !.ret = r.id,
                                             !.known = Known(key)])

Set(entity, value, key) ==
    /\ lastOp = Idle
    /\ \E r \in {set(Begin, entity, Scalar(value), key)} :
         Commit(r.s, [Call("set") EXCEPT !.key = key, !.entity = entity,
                                        !.value = Scalar(value), !.err = r.err,
                                        !.known = Known(key),
                                        !.had = HadBefore(entity, key),
                                        !.old = OldValue(entity, key)])

Insert(entity, values, keys) ==
    /\ lastOp = Idle
    /\ \E r \in {insert(Begin, entity, values, keys)} :
         Commit(r.s, [Call("insert") EXCEPT !.entity = entity, !.values = Given(values),
                                           !.keys = keys, !.err = r.err])

Add(entity, key) ==
    /\ lastOp = Idle
    /\ \E r \in {add(Begin, entity, key)} :
         Commit(r.s, [Call("add") EXCEPT !.key = key, !.entity = entity, !.err = r.err,
                                        !.known = Known(key),
                                        !.had = HadBefore(entity, key),
                                        !.old = OldValue(entity, key)])

RemoveCall(entity, key) ==
    /\ lastOp = Idle
    /\ \E r \in {remove(Begin, entity, key)} :
         Commit(r.s, [Call("remove") EXCEPT !.key = key, !.entity = entity, !.err = r.err,
                                           !.known = Known(key),
                                        !.had = HadBefore(entity, key),
                                        !.old = OldValue(entity, key)])

Has(entity, key) ==
    /\ lastOp = Idle
    /\ \E r \in {has(Begin, entity, key)} :
         Commit(r.s, [Call("has") EXCEPT !.key = key, !.entity = entity, !.err = r.err,
                                        !.retBool = r.bool, !.known = Known(key)])

Get(entity, key) ==
    /\ lastOp = Idle
    /\ \E r \in {get(Begin, entity, key)} :
         Commit(r.s, [Call("get") EXCEPT !.key = key, !.entity = entity, !.err = r.err,
                                        !.retValue = r.value, !.known = Known(key)])

Spawn(bundle, keys) ==
    /\ lastOp = Idle
    /\ \E r \in {spawn(Begin, bundle, keys)} :
         Commit(r.s, [Call("spawn") EXCEPT !.values = bundle, !.keys = keys, !.err = r.err,
                                          !.ret = r.id])

Target(entity, key) ==
    /\ lastOp = Idle
    /\ \E r \in {target(Begin, entity, key)} :
         Commit(r.s, [Call("target") EXCEPT !.key = KeyOf(key), !.entity = entity,
                                           !.err = r.err, !.ret = r.id])

Pair(object, predicate) ==
    /\ lastOp = Idle
    /\ \E r \in {pair(Begin, object, predicate)} :
         Commit(r.s, [Call("pair") EXCEPT !.key = KeyOf(predicate), !.entity = object,
                                         !.err = r.err, !.ret = r.id])

Despawn(entity) ==
    /\ lastOp = Idle
    /\ \E r \in {despawn(Begin, entity)} :
         Commit(r.s, [Call("despawn") EXCEPT !.entity = entity,
                                            !.had = registry.data[entity] # EmptyData])

Parent(entity) ==
    /\ lastOp = Idle
    /\ \E r \in {parent(Begin, entity)} :
         Commit(r.s, [Call("parent") EXCEPT !.entity = entity, !.err = r.err, !.ret = r.id])

RECURSIVE SumLen(_, _)
SumLen(seqs, i) == IF i > Len(seqs) THEN 0 ELSE Len(seqs[i]) + SumLen(seqs, i + 1)
\* the number of listeners connected so far
Connected == SumLen(channels, 1)

\* the channel an accessor returns for the identifier
Accessor(s, kind, id) ==
    CASE kind = "added" -> added(s, id)
      [] kind = "removed" -> removed(s, id)
      [] kind = "changed" -> changed(s, id)

\* added(id), removed(id), changed(id) for an identifier of the store,
\* registered or not: the table entry is returned as it is, nothing is checked
Access(kind, id) ==
    /\ lastOp = Idle
    /\ Commit(Begin, [Call(kind) EXCEPT !.entity = id, !.ret = Accessor(Begin, kind, id)])

\* added(id).connect(func), removed(id).connect(func), changed(id).connect(func)
\* for the identifier of a component of the caller; func is a listener not
\* connected before
Connect(kind, id) ==
    /\ lastOp = Idle
    /\ Connected < MaxListeners
    /\ Accessor(Begin, kind, id) # NoChan
    /\ Commit(connect(Begin, Accessor(Begin, kind, id), Connected + 1),
              [Call("connect") EXCEPT !.entity = id, !.ret = Accessor(Begin, kind, id)])

\* the caller has looked at the outcome of the call: the module is idle
\* until the next call
Returned ==
    /\ lastOp # Idle
    /\ lastOp' = Idle
    /\ fired' = <<>>
    /\ invoked' = <<>>
    /\ UNCHANGED <<components, signals, channels, registry, wired, origin, threads>>

\* the keys callers pass to reserve: the built-in keys are taken from the start
ReserveKeys == UserKeys \cup {Undefined}
\* the component whose channels callers listen to: their first
ListenKey == ChildOfKey + 1
\* the identifier whose channels callers listen to, once registered
ListenIds == {components[ListenKey]} \ {NoId}

Next ==
    \/ \E key \in KeyStrings : Component(key)
    \/ \E runtimeId \in Existing, key \in ReserveKeys : Reserve(runtimeId, key)
    \/ \E key \in KeyArgs : GetId(key)
    \/ \E entity \in Entities, value \in Vals, key \in FacadeKeys : Set(entity, value, key)
    \/ \E entity \in Entities, values \in SeqsUpTo(Vals, MaxBundle), keys \in KeyBundles :
          Insert(entity, values, keys)
    \/ \E entity \in Entities, key \in FacadeKeys : Add(entity, key)
    \/ \E entity \in Entities, key \in FacadeKeys : RemoveCall(entity, key)
    \/ \E entity \in Queryable, key \in FacadeKeys : Has(entity, key)
    \/ \E entity \in Queryable, key \in FacadeKeys : Get(entity, key)
    \/ \E bundle \in ValueBundles, keys \in KeyBundles : Spawn(bundle, keys)
    \/ \E entity \in Queryable, key \in KeyStrings : Target(entity, key)
    \/ \E object \in Entities, predicate \in KeyStrings : Pair(object, predicate)
    \/ \E entity \in Entities : Despawn(entity)
    \/ \E entity \in Queryable : Parent(entity)
    \/ \E kind \in {"added", "removed", "changed"}, id \in Existing : Access(kind, id)
    \/ \E kind \in {"added", "removed", "changed"}, id \in ListenIds : Connect(kind, id)
    \/ Returned

Spec == Init /\ [][Next]_vars
---------------------------------------------------------------------------
(* Listeners: the channels of one component, with several listeners, some of
   which throw *)

\* the listeners connected in all
MaxConnects == 3

\* the state after component(key) for the component listened to, and spawn()
SignalInit == spawn(component(ModuleInit, ListenKey).s, NoBundle, NoBundle).s

InitSignal ==
    /\ components = SignalInit.components
    /\ signals = SignalInit.signals
    /\ channels = SignalInit.channels
    /\ registry = SignalInit.registry
    /\ wired = SignalInit.wired
    /\ origin = SignalInit.origin
    /\ fired = <<>>
    /\ invoked = <<>>
    /\ lastOp = Idle
    /\ threads = NoThreads

\* added(id).connect(func), removed(id).connect(func), changed(id).connect(func)
\* with a listener not connected before, which throws when invoked or does not
Listen(kind, id, throws) ==
    /\ lastOp = Idle
    /\ Connected < MaxConnects
    /\ Accessor(Begin, kind, id) # NoChan
    /\ Commit(connect(Begin, Accessor(Begin, kind, id),
                      IF throws THEN 0 - (Connected + 1) ELSE Connected + 1),
              [Call("connect") EXCEPT !.entity = id, !.ret = Accessor(Begin, kind, id)])

\* added(id).fire(entity), removed(id).fire(entity), changed(id).fire(entity, data)
\* called by the caller
Fire(kind, id, entity, data) ==
    /\ lastOp = Idle
    /\ Accessor(Begin, kind, id) # NoChan
    /\ \E s \in {fire(Begin, Accessor(Begin, kind, id), entity, data)} :
         Commit(s, [Call("fire") EXCEPT !.entity = entity, !.value = data,
                                         !.ret = Accessor(Begin, kind, id),
                                         !.err = IF s.thrown THEN ListenerFailed ELSE NoError])

NextSignal ==
    \/ \E kind \in {"added", "removed", "changed"}, id \in ListenIds, throws \in BOOLEAN :
          Listen(kind, id, throws)
    \/ \E kind \in {"added", "removed", "changed"}, id \in ListenIds, entity \in Entities,
          data \in {Nil} \cup {Scalar(v) : v \in Vals} : Fire(kind, id, entity, data)
    \/ \E entity \in Entities, value \in Vals : Set(entity, value, PlainKey(ListenKey))
    \/ \E entity \in Entities : Add(entity, PlainKey(ListenKey))
    \/ \E entity \in Entities : RemoveCall(entity, PlainKey(ListenKey))
    \/ Returned

SpecSignal == InitSignal /\ [][NextSignal]_vars
---------------------------------------------------------------------------
(* Concurrent callers of component(key): each statement of lines 86-94 is a
   step of its own, or the whole call is one step *)

InitRace ==
    /\ components = ModuleInit.components
    /\ signals = ModuleInit.signals
    /\ channels = ModuleInit.channels
    /\ registry = ModuleInit.registry
    /\ wired = ModuleInit.wired
    /\ origin = ModuleInit.origin
    /\ fired = <<>>
    /\ invoked = <<>>
    /\ lastOp = Idle
    /\ threads \in {[NoThreads EXCEPT !.atomic = a] : a \in BOOLEAN}

\* the program state a step of a thread leaves
Shared(s) ==
    /\ ~s.overflow
    /\ components' = s.components
    /\ signals' = s.signals
    /\ channels' = s.channels
    /\ registry' = s.registry
    /\ wired' = s.wired
    /\ origin' = s.origin
    /\ UNCHANGED <<fired, invoked, lastOp>>

\* lines 85-87: const id = components.get(key); if (id === undefined)
ThreadLookup(t, key) ==
    /\ ~threads.atomic
    /\ threads.pc[t] = "idle"
    /\ threads' = [threads EXCEPT !.key[t] = key,
                                  !.id[t] = components[key],
                                  !.pc[t] = IF components[key] = NoId THEN "mint" ELSE "return"]
    /\ Shared(State)

\* line 89: id = registry.component()
ThreadMint(t) ==
    /\ ~threads.atomic
    /\ threads.pc[t] = "mint"
    /\ \E m \in {world_component(State)} :
         /\ threads' = [threads EXCEPT !.id[t] = m.id, !.pc[t] = "insert"]
         /\ Shared(m.s)

\* line 90: components.set(key, id)
ThreadInsert(t) ==
    /\ ~threads.atomic
    /\ threads.pc[t] = "insert"
    /\ threads' = [threads EXCEPT !.pc[t] = "wire"]
    /\ Shared([State EXCEPT !.components[threads.key[t]] = threads.id[t],
                            !.origin[threads.key[t]] = "component"])

\* line 91: hookListeners(id)
ThreadWire(t) ==
    /\ ~threads.atomic
    /\ threads.pc[t] = "wire"
    /\ threads' = [threads EXCEPT !.pc[t] = "return"]
    /\ Shared(hookListeners(State, threads.id[t]))

\* line 94: return id
ThreadReturn(t) ==
    /\ ~threads.atomic
    /\ threads.pc[t] = "return"
    /\ threads' = [threads EXCEPT !.pc[t] = "done"]
    /\ Shared(State)

\* component(key) as one step, lines 84-95
ThreadComponent(t, key) ==
    /\ threads.atomic
    /\ threads.pc[t] = "idle"
    /\ \E r \in {component(State, key)} :
         /\ threads' = [threads EXCEPT !.key[t] = key, !.id[t] = r.id, !.pc[t] = "done"]
         /\ Shared(r.s)

\* the caller goes on to its next call of component
ThreadAgain(t) ==
    /\ threads.pc[t] = "done"
    /\ threads' = [threads EXCEPT !.pc[t] = "idle", !.key[t] = Undefined, !.id[t] = NoId]
    /\ Shared(State)

NextRace ==
    \/ \E t \in Threads, key \in UserKeys : ThreadLookup(t, key)
    \/ \E t \in Threads : ThreadMint(t)
    \/ \E t \in Threads : ThreadInsert(t)
    \/ \E t \in Threads : ThreadWire(t)
    \/ \E t \in Threads : ThreadReturn(t)
    \/ \E t \in Threads, key \in UserKeys : ThreadComponent(t, key)
    \/ \E t \in Threads : ThreadAgain(t)

SpecRace == InitRace /\ [][NextRace]_vars
---------------------------------------------------------------------------
(* Registered identifiers *)

\* the identifiers that are the value of some key of the identity cache
Registered == {components[k] : k \in Keys} \ {NoId}

---------------------------------------------------------------------------
(* C1: identity stability *)

\* C1: once a key is in the identity cache mapped to an identifier, no call
\* (component, reserve, getId or a facade call) changes or deletes the entry,
\* and every later component(k) and getId(k) returns that identifier.
IdentityStable ==
    [][\A k \in Keys :
          components[k] # NoId =>
              /\ components'[k] = components[k]
              /\ (lastOp'.op \in {"component", "getId"} /\ lastOp'.key = PlainKey(k)) =>
                    (lastOp'.err = NoError /\ lastOp'.ret = components[k])]_vars

\* component(k) was called for a user key already in the cache, after an
\* entity was spawned, and returned the identifier of the cache
IdentityStableWitness ==
    /\ lastOp.op = "component"
    /\ lastOp.known
    /\ lastOp.key.str \in UserKeys
    /\ lastOp.ret = components[lastOp.key.str]
    /\ registry.nEntities > 0

---------------------------------------------------------------------------
(* C2: registration uniqueness *)

\* C2: reserve(id2, k) with k already in the identity cache fails and leaves
\* the state unchanged: the mapping of k, the signal table, the channels and
\* the store's hooks.
ReserveConflict ==
    (lastOp.op = "reserve" /\ lastOp.known) =>
        (lastOp.err = DuplicateKey /\ lastOp.changed = {})

\* reserve was called with a registered key and another identifier than the
\* key's, and failed
ReserveConflictWitness ==
    /\ lastOp.op = "reserve"
    /\ lastOp.err = DuplicateKey
    /\ lastOp.key.str \in UserKeys
    /\ lastOp.entity # components[lastOp.key.str]

---------------------------------------------------------------------------
(* C3: signal triples and the identity cache *)

\* C3: in every reachable state an identifier has an added, a removed and a
\* changed channel in the signal table if and only if it is the value of some
\* key of the identity cache; the three exist together or not at all.
SignalTripleIffRegistered ==
    \A id \in Ids :
        /\ (signals.added[id] # NoChan) <=> (id \in Registered)
        /\ (signals.removed[id] # NoChan) <=> (id \in Registered)
        /\ (signals.changed[id] # NoChan) <=> (id \in Registered)

\* a user key is registered, its identifier has its triple, and another
\* identifier exists that is not registered and has none
SignalTripleWitness ==
    /\ \E k \in UserKeys : components[k] # NoId /\ signals.changed[components[k]] # NoChan
    /\ \E id \in Existing : id \notin Registered /\ signals.added[id] = NoChan

---------------------------------------------------------------------------
(* C4: hook wiring runs once per identifier *)

\* C4: hookListeners is executed at most once for any identifier, over any
\* sequence of component and reserve calls.
WiredAtMostOnce == \A id \in Ids : wired[id] <= 1
---------------------------------------------------------------------------
(* C5: insert keeps keys and values in correspondence *)

\* the identifier a plain key of a bundle resolved to
IdOf(key) == components[key.str]

\* C5: after insert(entity, values, keys) with as many values as keys, for
\* every index i the component under the identifier of keys[i] is values[i]
\* (unless a later index has the same key).
InsertOneToOne ==
    (lastOp.op = "insert" /\ lastOp.err = NoError
        /\ Len(lastOp.values.seq) = Len(lastOp.keys.seq)) =>
        \A i \in 1..Len(lastOp.keys.seq) :
            (\A j \in (i + 1)..Len(lastOp.keys.seq) : lastOp.keys.seq[j] # lastOp.keys.seq[i]) =>
                world_get(State, lastOp.entity, IdOf(lastOp.keys.seq[i]))
                    = Scalar(lastOp.values.seq[i])

---------------------------------------------------------------------------
(* C6: has and get as queries *)

\* C6 as stated: has(entity, key) and get(entity, key) leave the identity
\* cache, the signal table, the minted identifiers, the hooks and the entity
\* data unchanged, for every key.
QueriesChangeNothing ==
    lastOp.op \in {"has", "get"} => lastOp.changed = {}

\* C6 as amended: has and get never change the entities or their component
\* data; they change nothing at all when the key is omitted or every key
\* string of it is in the identity cache, and otherwise they register the
\* unresolved key strings as component does.
QueriesLeaveData ==
    lastOp.op \in {"has", "get"} =>
        /\ lastOp.changed \cap {"entities", "data"} = {}
        /\ fired = <<>>
        /\ (lastOp.known \/ lastOp.err # NoError) => lastOp.changed = {}
        /\ (~lastOp.known /\ lastOp.err = NoError) =>
              {"components", "signals", "channels", "minted", "hooks"} \subseteq lastOp.changed

\* has was called with a pair key never resolved before, and registered it
QueriesWitness ==
    /\ lastOp.op = "has"
    /\ lastOp.key.kind = "table"
    /\ ~lastOp.known
    /\ "components" \in lastOp.changed
    /\ lastOp.retBool = FALSE

---------------------------------------------------------------------------
(* C7: signals of add and remove *)

Range(seq) == {seq[i] : i \in 1..Len(seq)}
\* the number of fires of the channel with the entity during the last call
Fires(chan, entity) ==
    Cardinality({i \in 1..Len(fired) : fired[i].chan = chan /\ fired[i].entity = entity})

\* C7: for a plain key with identifier id, add(e, key) fires id's added
\* channel with (e) exactly when e did not have id before the call, remove(e,
\* key) fires id's removed channel with (e) exactly when e had id; a repeated
\* add or remove fires nothing, and no channel of another identifier or of
\* another kind fires.
AddRemoveSignals ==
    (lastOp.op \in {"add", "remove"} /\ lastOp.key.kind = "string" /\ lastOp.err = NoError) =>
        LET id == IdOf(lastOp.key)
            isAdd == lastOp.op = "add"
            chan == IF isAdd THEN signals.added[id] ELSE signals.removed[id]
            mine == IF isAdd THEN Range(registry.hooks[id].OnAdd)
                    ELSE Range(registry.hooks[id].OnRemove)
        IN IF lastOp.had = isAdd
           THEN fired = <<>> /\ invoked = <<>>
           ELSE /\ Fires(chan, lastOp.entity) = 1
                /\ \A i \in 1..Len(fired) :
                      fired[i].chan \in mine /\ fired[i].entity = lastOp.entity
                /\ \A i \in 1..Len(invoked) : invoked[i].entity = lastOp.entity
                /\ world_has(State, lastOp.entity, id) = isAdd

\* add was called on an entity that did not have the component: the added
\* channel fired once and its listener was invoked
AddRemoveWitness ==
    /\ lastOp.op = "add"
    /\ lastOp.key.kind = "string"
    /\ ~lastOp.had
    /\ Len(fired) = 1
    /\ Len(invoked) = 1

---------------------------------------------------------------------------
(* C8: set fires changed on every call *)

\* C8: set(e, v, key) with a plain key fires the changed channel of the
\* key's identifier exactly once with (e, v), whatever the value was before;
\* every listener of the channel is invoked with (e, v) during the call, and
\* the component of e under the identifier is v afterwards.
SetFiresChanged ==
    (lastOp.op = "set" /\ lastOp.key.kind = "string" /\ lastOp.err = NoError) =>
        LET id == IdOf(lastOp.key)
            chan == signals.changed[id]
            event == [chan |-> chan, entity |-> lastOp.entity, data |-> lastOp.value]
        IN /\ world_get(State, lastOp.entity, id) = lastOp.value
           /\ Cardinality({i \in 1..Len(fired) : fired[i] = event}) = 1
           /\ \A i \in 1..Len(fired) :
                 /\ fired[i].chan \in Range(registry.hooks[id].OnSet)
                 /\ fired[i].entity = lastOp.entity
                 /\ fired[i].data = lastOp.value
           /\ [i \in 1..Len(channels[chan]) |->
                  Listener(channels[chan][i], chan, lastOp.entity, lastOp.value)]
                 = SelectSeq(invoked, LAMBDA x : x.chan = chan)

\* set was called with the value the entity already had under the key, the
\* changed channel fired and its listener was invoked
SetFiresWitness ==
    /\ lastOp.op = "set"
    /\ lastOp.key.kind = "string"
    /\ lastOp.had
    /\ lastOp.old = lastOp.value
    /\ Len(fired) = 1
    /\ Len(invoked) = 1

---------------------------------------------------------------------------
(* C9: spawn *)

\* C9: spawn returns a fresh entity, and performs sets only if a value bundle
\* and a key bundle of equal length are given; otherwise the entity has no
\* components and nothing fires.
SpawnSetsOnlyMatching ==
    lastOp.op = "spawn" =>
        /\ lastOp.ret \in registry.entities
        /\ ~(lastOp.values.given /\ lastOp.keys.given
                /\ Len(lastOp.values.seq) = Len(lastOp.keys.seq)) =>
              (registry.data[lastOp.ret] = EmptyData /\ fired = <<>>)

---------------------------------------------------------------------------
(* C10: calls without a key *)

\* C10: component, reserve, getId, set, add, remove, has, get, target and
\* pair called with the key omitted fail, and leave the identity cache, the
\* signal table, the store's identifiers and hooks and the entity data as
\* they were; nothing fires.
MissingKeyNoEffect ==
    (lastOp.op \in {"component", "reserve", "getId", "set", "add", "remove", "has", "get",
                    "target", "pair"}
        /\ lastOp.key = OmittedKey) =>
        (lastOp.err = MissingKey /\ lastOp.changed = {} /\ fired = <<>>)

\* set was called without a key on a spawned entity, and failed
MissingKeyWitness ==
    /\ lastOp.op = "set"
    /\ lastOp.key = OmittedKey
    /\ lastOp.err = MissingKey
    /\ lastOp.entity \in registry.entities
---------------------------------------------------------------------------
(* C11: pair encoding *)

\* the identifier a side of a pair key stands for: the wildcard when the side
\* is absent, the cache's identifier for the side's key otherwise
SideId(side) == IF side = Undefined THEN Wildcard ELSE components[side]

\* C11: getId on a pair key returns the store's pairing of the predicate side
\* and the object side, in that order, an absent side being the wildcard: the
\* result's first part is the predicate's identifier and its second part the
\* object's; pair(object, predicate) returns the pairing whose first part is
\* the predicate's identifier and whose second part is the object entity.
PairEncoding ==
    /\ (lastOp.op = "getId" /\ lastOp.key.kind = "table" /\ lastOp.err = NoError)
         => /\ IsPair(lastOp.ret)
            /\ ecs_pair_first(lastOp.ret) = SideId(lastOp.key.pred)
            /\ ecs_pair_second(lastOp.ret) = SideId(lastOp.key.obj)
            /\ (lastOp.key.pred = Undefined /\ lastOp.key.obj = Undefined)
                 => lastOp.ret = ecs_pair(Wildcard, Wildcard)
    /\ (lastOp.op = "pair" /\ lastOp.err = NoError)
         => /\ ecs_pair_first(lastOp.ret) = components[lastOp.key.str]
            /\ ecs_pair_second(lastOp.ret) = lastOp.entity

\* getId was called with a pair key whose two sides are different components
PairEncodingWitness ==
    /\ lastOp.op = "getId" /\ lastOp.key.kind = "table" /\ lastOp.err = NoError
    /\ lastOp.key.pred \in UserKeys
    /\ lastOp.key.obj \in UserKeys \ {lastOp.key.pred}
    /\ lastOp.ret = ecs_pair(components[lastOp.key.pred], components[lastOp.key.obj])
    /\ components[lastOp.key.pred] # components[lastOp.key.obj]

---------------------------------------------------------------------------
(* C12: despawn completeness *)

\* C12: after despawn(e), in every later state (no set or add reaches a
\* despawned entity), has(e, k) is false and get(e, k) is absent for every
\* registered key k, and parent(e) is absent; despawn changes neither the
\* identity cache nor the signal table, nor anything but the entity and its
\* components.
DespawnCompleteness ==
    /\ \A e \in registry.deleted :
         /\ e \notin registry.entities
         /\ \A key \in FacadeKeys :
              Known(key) => /\ ~has(State, e, key).bool
                            /\ get(State, e, key).value = Nil
         /\ parent(State, e).id = NoId
    /\ lastOp.op = "despawn"
         => /\ lastOp.entity \in registry.deleted
            /\ lastOp.changed \subseteq {"entities", "data"}
    /\ (lastOp.op \in {"has", "get", "parent", "target"} /\ lastOp.entity \in registry.deleted)
         => /\ lastOp.retBool = FALSE
            /\ lastOp.retValue = Nil
            /\ lastOp.ret = NoId

\* an entity that had a component was despawned
DespawnCompletenessWitness ==
    /\ lastOp.op = "despawn" /\ lastOp.had
    /\ lastOp.entity \in registry.deleted
    /\ registry.data[lastOp.entity] = EmptyData

---------------------------------------------------------------------------
(* C13: channel ordering *)

\* C13: a fire invokes the listeners connected before it, each once with
\* exactly the fire's arguments, in connection order, within the fire: all of
\* them when the fire returns, and those up to the first that throws when it
\* does not; a connect invokes nothing, so no earlier fire is delivered to a
\* listener connected after it; and no step removes a listener or a channel.
ChannelOrdering ==
    [][/\ \A c \in DOMAIN channels :
            /\ c \in DOMAIN channels'
            /\ Len(channels'[c]) >= Len(channels[c])
            /\ SubSeq(channels'[c], 1, Len(channels[c])) = channels[c]
       /\ lastOp'.op = "fire"
            => LET listeners == channels[lastOp'.ret]
                   n == Len(invoked')
               IN /\ channels' = channels
                  /\ n <= Len(listeners)
                  /\ \A i \in 1..n :
                       invoked'[i] = Listener(listeners[i], lastOp'.ret,
                                              lastOp'.entity, lastOp'.value)
                  /\ lastOp'.err = NoError => n = Len(listeners)
                  /\ lastOp'.err # NoError => n >= 1 /\ Throws(listeners[n])
       /\ lastOp'.op = "connect"
            => /\ invoked' = <<>>
               /\ Len(channels'[lastOp'.ret]) = Len(channels[lastOp'.ret]) + 1
      ]_vars

\* a fire returned on a channel with two listeners or more
ChannelOrderingWitness ==
    /\ lastOp.op = "fire" /\ lastOp.err = NoError
    /\ Len(channels[lastOp.ret]) >= 2
    /\ Len(invoked) = Len(channels[lastOp.ret])

---------------------------------------------------------------------------
(* C14: missing bundle arity *)

\* C14: an insert without a matching key sequence, the keys absent or of
\* another length than the values, fails before any store mutation: it ends
\* with an error, sets no component and fires no changed channel.
InsertNeedsMatchingKeys ==
    (/\ lastOp.op = "insert"
     /\ \/ ~lastOp.keys.given
        \/ Len(lastOp.keys.seq) # Len(lastOp.values.seq))
        => /\ lastOp.err # NoError
           /\ lastOp.changed = {}
           /\ fired = <<>>

---------------------------------------------------------------------------
(* C15: built-in pre-registration *)

\* the store's identifier for a built-in key
BuiltinId(k) == IF k = WildcardKey THEN Wildcard ELSE ChildOf

\* no caller has registered a key or made the store mint an identifier
Pristine == registry.nextId = 0 /\ \A k \in UserKeys : components[k] = NoId

\* C15: in the initial state the identity cache holds exactly the Wildcard key
\* with the store's wildcard identifier and the ChildOf key with the store's
\* child-of identifier, each of the two with its three channels and three
\* hooks, and no identifier has been minted; in every reachable state the two
\* keys still resolve to those identifiers, component returns them for the
\* built-in keys without minting, and parent(e) returns what target(e) does
\* for the ChildOf key.
BuiltinsPreRegistered ==
    /\ \A k \in BuiltinKeys :
         /\ components[k] = BuiltinId(k)
         /\ component(State, k).id = BuiltinId(k)
         /\ \A kind \in {"added", "removed", "changed"} : signals[kind][BuiltinId(k)] # NoChan
         /\ \A event \in {"OnAdd", "OnRemove", "OnSet"} :
              registry.hooks[BuiltinId(k)][event] # <<>>
    /\ Pristine
         => /\ \A id \in ReservedIds :
                 /\ wired[id] = 1
                 /\ \A event \in {"OnAdd", "OnRemove", "OnSet"} :
                      Len(registry.hooks[id][event]) = 1
            /\ \A id \in Ids \ ReservedIds :
                 /\ wired[id] = 0
                 /\ \A kind \in {"added", "removed", "changed"} : signals[kind][id] = NoChan
            /\ Len(channels) = 3 * Cardinality(BuiltinKeys)
            /\ Minted(registry) = {}
    /\ (lastOp.op = "component" /\ lastOp.key.str \in BuiltinKeys)
         => /\ lastOp.err = NoError
            /\ lastOp.ret = BuiltinId(lastOp.key.str)
            /\ "minted" \notin lastOp.changed
    /\ lastOp.op = "parent"
         => /\ lastOp.err = NoError
            /\ lastOp.ret = target(State, lastOp.entity, ChildOfKey).id
            /\ lastOp.ret = world_target(State, lastOp.entity, ChildOf)

\* parent returned the parent of an entity that has one
BuiltinsWitness ==
    /\ lastOp.op = "parent" /\ lastOp.err = NoError
    /\ lastOp.ret # NoId
    /\ components[ChildOfKey] = ChildOf

---------------------------------------------------------------------------
(* C16: listener failures *)

\* C16: a listener's failure is not caught: when a listener throws while a
\* channel is fired from a store hook during set, add or remove, the failure
\* reaches the caller of the facade, the listeners connected after it are not
\* invoked for that fire, and nothing done before it is rolled back: the
\* store mutation stays, and the listeners before it were invoked.
ListenerFailurePropagates ==
    lastOp.op \in {"set", "add", "remove"}
      => LET id == components[lastOp.key.str]
             n == Len(invoked)
         IN /\ lastOp.err \in {NoError, ListenerFailed}
            /\ lastOp.err = ListenerFailed
                 <=> \E i \in 1..n : Throws(invoked[i].listener)
            /\ fired = <<>> => invoked = <<>>
            /\ fired # <<>>
                 => LET listeners == channels[fired[1].chan]
                    IN /\ Len(fired) = 1
                       /\ n <= Len(listeners)
                       /\ \A i \in 1..n :
                            /\ invoked[i].listener = listeners[i]
                            /\ i < n => ~Throws(listeners[i])
                       /\ n < Len(listeners) => n >= 1 /\ Throws(listeners[n])
            /\ lastOp.op = "set" => world_get(State, lastOp.entity, id) = lastOp.value
            /\ lastOp.op = "add" => world_has(State, lastOp.entity, id)
            /\ lastOp.op = "remove" => ~world_has(State, lastOp.entity, id)

\* a set whose changed channel has three listeners, the second of which threw
ListenerFailureWitness ==
    /\ lastOp.op = "set" /\ lastOp.err = ListenerFailed
    /\ fired # <<>>
    /\ Len(channels[fired[1].chan]) = 3
    /\ Len(invoked) = 2
    /\ world_get(State, lastOp.entity, components[lastOp.key.str]) = lastOp.value
    /\ lastOp.old # lastOp.value

---------------------------------------------------------------------------
(* C17: resolve-or-create is not atomic *)

\* the threads that returned from component(key), as pairs of threads
ReturnedPairs == {p \in Threads \X Threads : threads.pc[p[1]] = "done" /\ threads.pc[p[2]] = "done"}

\* C17: when every component(key) runs as one atomic step, no state is
\* reachable in which a key has had two identifiers minted, an identifier's
\* hooks wired twice, or two callers of the same key returned different
\* identifiers: the minted identifiers are the registered ones, each wired
\* once. (That such a state is reachable when the lookup, the mint, the
\* insert and the wiring of two callers interleave is the witness.)
AtomicResolveOrCreate ==
    threads.atomic
      => /\ \A p \in ReturnedPairs :
              threads.key[p[1]] = threads.key[p[2]] => threads.id[p[1]] = threads.id[p[2]]
         /\ \A t \in Threads : threads.pc[t] = "done" => threads.id[t] = components[threads.key[t]]
         /\ Minted(registry) = {components[k] : k \in UserKeys} \ {NoId}
         /\ registry.nextId = Cardinality({k \in UserKeys : components[k] # NoId})
         /\ \A id \in Minted(registry) : wired[id] = 1
         /\ Len(channels) = 3 * Cardinality({k \in Keys : components[k] # NoId})

\* two interleaved callers of component for one unregistered key have both
\* returned: two identifiers were minted for the key, the hooks were wired
\* for each, and the callers hold different identifiers
RaceWitness ==
    /\ ~threads.atomic
    /\ \E p \in ReturnedPairs :
         /\ threads.key[p[1]] = threads.key[p[2]]
         /\ threads.id[p[1]] # threads.id[p[2]]
         /\ {threads.id[p[1]], threads.id[p[2]]} \subseteq Minted(registry)
         /\ wired[threads.id[p[1]]] = 1 /\ wired[threads.id[p[2]]] = 1
         /\ Cardinality({k \in UserKeys : components[k] # NoId}) = 1
    /\ registry.nextId = 2
    /\ Len(channels) = 3 * Cardinality(BuiltinKeys) + 6

---------------------------------------------------------------------------
(* C18: unregistered-signal lookup *)

\* C18: added(id), removed(id) and changed(id) for an identifier that was
\* never registered end with an explicit error at the accessor call, and
\* return no missing channel.
AccessorReportsUnregistered ==
    (lastOp.op \in {"added", "removed", "changed"} /\ wired[lastOp.entity] = 0)
        => lastOp.err # NoError

---------------------------------------------------------------------------
(* C19: channel stability *)

\* C19: once an identifier is registered, added(id), removed(id) and
\* changed(id) return the same three channels in every later state, and the
\* listeners of a channel stay connected: no step, and so no later component
\* or reserve call, replaces a channel of the table or detaches a listener.
ChannelsStable ==
    [][/\ \A id \in Ids, kind \in {"added", "removed", "changed"} :
            Accessor(State, kind, id) # NoChan
              => signals'[kind][id] = Accessor(State, kind, id)
       /\ \A c \in DOMAIN channels :
            /\ c \in DOMAIN channels'
            /\ Len(channels'[c]) >= Len(channels[c])
            /\ SubSeq(channels'[c], 1, Len(channels[c])) = channels[c]
      ]_vars

---------------------------------------------------------------------------
(* C20: minting accounting *)

\* the keys whose entry of the identity cache component created
ComponentKeys == {k \in Keys : origin[k] = "component"}

\* C20: component(k) makes the store mint only when k is absent from the
\* cache, and then exactly one identifier, which it returns; on a registered
\* key it changes nothing; so the component identifiers the store has minted
\* are as many as the keys whose entry component created, the identifiers of
\* two such keys differ, and reserve never mints.
MintingAccounting ==
    /\ (lastOp.op = "component" /\ lastOp.known)
         => /\ lastOp.changed = {}
            /\ lastOp.ret = components[lastOp.key.str]
    /\ (lastOp.op = "component" /\ ~lastOp.known /\ lastOp.err = NoError)
         => /\ "minted" \in lastOp.changed
            /\ lastOp.ret = ChildOf + registry.nextId
            /\ components[lastOp.key.str] = lastOp.ret
            /\ lastOp.key.str \in ComponentKeys
    /\ lastOp.op = "reserve" => "minted" \notin lastOp.changed
    /\ Cardinality(ComponentKeys) = registry.nextId - registry.nEntities
    /\ \A k1 \in ComponentKeys, k2 \in ComponentKeys : k1 # k2 => components[k1] # components[k2]
    /\ \A k \in ComponentKeys : components[k] \in Minted(registry)

\* component minted the identifier of a second key; the built-in keys were
\* registered by reserve
MintingWitness ==
    /\ lastOp.op = "component" /\ ~lastOp.known /\ lastOp.err = NoError
    /\ "minted" \in lastOp.changed
    /\ Cardinality(ComponentKeys) = 2
    /\ registry.nextId - registry.nEntities = 2
    /\ \A k \in BuiltinKeys : origin[k] = "reserve"

====
